---- MODULE Spec2Model ----
(***************************************************************************)
(* A model of src/models/base_model.py: the BaseModel lifecycle            *)
(* (setup, save_networks, load_networks, update_learning_rate,             *)
(* get_current_losses) and the construction and forward pass of            *)
(* ResnetBlock and UnetBlock.                                              *)
(*                                                                         *)
(* Python strings are sequences of one-character strings, so that slicing  *)
(* (k[7:]) and '%' formatting are computed character by character.         *)
(* An OrderedDict is a sequence of [k, v] records in insertion order.      *)
(* A tensor is an abstract value 0..MaxVal; a feature map is its channel   *)
(* count and one spatial extent.                                           *)
(***************************************************************************)
EXTENDS Integers, Sequences, FiniteSets, TLC

VARIABLES
    isTrain,      \* self.isTrain (conf.isTrain)
    lr_policy,    \* self.conf.lr_policy
    model_names,  \* self.model_names
    nets,         \* the attributes net<name>
    emaG,         \* self.emaG
    disk,         \* the files under self.save_dir
    optimizers,   \* self.optimizers: the lr of each optimizer's first param group
    schedSet,     \* whether the attribute self.schedulers exists
    schedulers,   \* self.schedulers
    metric,       \* self.metric
    metricSet,    \* history: self.metric was assigned after __init__
    loss_names,   \* self.loss_names
    loss_attrs,   \* the attributes loss_<name>
    lastSave,     \* history: the last completed save_networks and the weights it left
    call,         \* the last call: its arguments, the calls it made, how it ended
    nOps,         \* number of calls made so far
    ublk,         \* the UnetBlock under construction / in use
    ucall,        \* the last UnetBlock call
    rblk,         \* the ResnetBlock in use
    rcall         \* the last ResnetBlock call

vars == <<isTrain, lr_policy, model_names, nets, emaG, disk, optimizers, schedSet,
          schedulers, metric, metricSet, loss_names, loss_attrs, lastSave, call,
          nOps, ublk, ucall, rblk, rcall>>

baseVars == <<isTrain, lr_policy, model_names, nets, emaG, disk, optimizers, schedSet,
              schedulers, metric, metricSet, loss_names, loss_attrs, lastSave, call,
              nOps>>

(***************************************************************************)
(* Bounds.                                                                 *)
(***************************************************************************)
MaxOps == 2
MaxVal == 1
MaxSched == 2
MaxLoss == 2
MaxWraps == 1

(***************************************************************************)
(* Strings.                                                                *)
(***************************************************************************)
S_latest == <<"l", "a", "t", "e", "s", "t">>
S_iter == <<"i", "t", "e", "r", "_">>
S_net == <<"_", "n", "e", "t", "_">>
S_pth == <<".", "p", "t", "h">>
S_module == <<"m", "o", "d", "u", "l", "e", ".">>
S_G == <<"G">>
S_D == <<"D">>

Digit(d) == <<"0", "1", "2", "3", "4", "5", "6", "7", "8", "9">>[d + 1]

RECURSIVE DecNat(_)
DecNat(n) == IF n < 10 THEN <<Digit(n)>> ELSE DecNat(n \div 10) \o <<Digit(n % 10)>>

\* '%d' % n
FormatD(n) == IF n < 0 THEN <<"-">> \o DecNat(0 - n) ELSE DecNat(n)

\* 'iter_%d' % n
IterSuffix(n) == S_iter \o FormatD(n)

\* '%s_net_%s.pth' % (epoch, name)
FileName(epoch, name) == epoch \o S_net \o name \o S_pth

(***************************************************************************)
(* OrderedDict: a sequence of [k, v] in insertion order.                   *)
(***************************************************************************)
ODKeys(od) == {od[i].k : i \in 1..Len(od)}

ODHas(od, key) == key \in ODKeys(od)

ODGet(od, key) == od[CHOOSE i \in 1..Len(od) : od[i].k = key].v

\* od[key] = val: an existing key keeps its place, a new one is appended
ODSet(od, key, val) ==
    IF ODHas(od, key)
    THEN [i \in 1..Len(od) |-> IF od[i].k = key THEN [k |-> key, v |-> val] ELSE od[i]]
    ELSE Append(od, [k |-> key, v |-> val])

(***************************************************************************)
(* Networks. A network attribute is unbound, a plain module, or a module   *)
(* wrapped in torch.nn.DataParallel; params is the module's own            *)
(* parameter/buffer map.                                                   *)
(***************************************************************************)
\* state_dict(): a DataParallel wrapper prefixes every key with 'module.'
StateDict(net) ==
    IF net.wrapped
    THEN [i \in 1..Len(net.params) |->
             [k |-> S_module \o net.params[i].k, v |-> net.params[i].v]]
    ELSE net.params

PrefixLen == 7

\* k[7:]
StripKey(key) == SubSeq(key, PrefixLen + 1, Len(key))

RECURSIVE NewStateDictFrom(_, _, _)
NewStateDictFrom(sd, i, acc) ==
    IF i > Len(sd) THEN acc
    ELSE NewStateDictFrom(sd, i + 1, ODSet(acc, StripKey(sd[i].k), sd[i].v))

\* new_state_dict: every key of the checkpoint without its first 7 characters
NewStateDict(sd) == NewStateDictFrom(sd, 1, <<>>)

KeysMatchIgnoringExtra(ckKeys, liveKeys) == liveKeys \subseteq ckKeys

\* load_state_dict is strict: no missing and no unexpected key
KeysMatch(ckKeys, liveKeys) == ckKeys = liveKeys

\* net.load_state_dict(new_state_dict): the keys the module has are copied,
\* and then a key mismatch raises
LoadStateDict(params, nsd) ==
    [params |-> [i \in 1..Len(params) |->
                    IF ODHas(nsd, params[i].k)
                    THEN [k |-> params[i].k, v |-> ODGet(nsd, params[i].k)]
                    ELSE params[i]],
     ok |-> KeysMatch(ODKeys(nsd), ODKeys(params))]

(***************************************************************************)
(* Events: the calls a method makes, in order.                             *)
(***************************************************************************)
Ev(name) == [ev |-> name, s |-> <<>>, i |-> 0, hasArg |-> FALSE, arg |-> 0]

EvS(name, str) == [Ev(name) EXCEPT !.s = str]

IsStrName(nm) == nm.isStr

StrName(str) == [isStr |-> TRUE, s |-> str]

NonStrName == [isStr |-> FALSE, s |-> <<>>]

(***************************************************************************)
(* Checkpoints.                                                            *)
(***************************************************************************)
NetAttrs == {S_G, S_D}

Unbound == [bound |-> FALSE, wrapped |-> FALSE, params |-> <<>>]

\* emaG.apply_shadow(): the generator's live weights become the shadow weights
ApplyShadow(ns, ema) ==
    IF ns[S_G].bound
    THEN [ns EXCEPT ![S_G].params =
             [i \in 1..Len(ns[S_G].params) |->
                 [k |-> ns[S_G].params[i].k, v |-> ema.shadow]]]
    ELSE ns

UseEmaAnyEpoch(epoch, ema) == ema.attached

\* epoch == 'latest' and self.emaG
UseEma(epoch, ema) == epoch = S_latest /\ ema.attached

WriteFile(dk, file, sd) ==
    [f \in DOMAIN dk \cup {file} |-> IF f = file THEN sd ELSE dk[f]]

RECURSIVE SaveLoop(_, _, _, _)
SaveLoop(epoch, names, i, st) ==
    IF i > Len(names) THEN st
    ELSE IF ~IsStrName(names[i]) THEN SaveLoop(epoch, names, i + 1, st)
    ELSE IF ~st.nets[names[i].s].bound THEN [st EXCEPT !.err = "AttributeError"]
    ELSE LET file == FileName(epoch, names[i].s)
         IN  SaveLoop(epoch, names, i + 1,
                 [st EXCEPT !.disk = WriteFile(st.disk, file, StateDict(st.nets[names[i].s])),
                            !.events = Append(st.events, EvS("torch_save", file))])

\* save_networks(epoch)
SaveNetworksF(epoch, names, ns, dk, ema) ==
    SaveLoop(epoch, names, 1,
        IF UseEma(epoch, ema)
        THEN [nets |-> ApplyShadow(ns, ema), disk |-> dk,
              events |-> <<Ev("apply_shadow")>>, err |-> "none"]
        ELSE [nets |-> ns, disk |-> dk, events |-> <<>>, err |-> "none"])

RECURSIVE LoadLoop(_, _, _, _)
LoadLoop(epoch, names, i, st) ==
    IF i > Len(names) THEN st
    ELSE IF ~IsStrName(names[i]) THEN LoadLoop(epoch, names, i + 1, st)
    ELSE IF ~st.nets[names[i].s].bound THEN [st EXCEPT !.err = "AttributeError"]
    ELSE LET file == FileName(epoch, names[i].s)
         IN  IF file \notin DOMAIN st.disk
             THEN [st EXCEPT !.err = "FileNotFoundError",
                             !.events = Append(st.events, EvS("torch_load", file))]
             ELSE LET r == LoadStateDict(st.nets[names[i].s].params,
                                         NewStateDict(st.disk[file]))
                      st1 == [st EXCEPT !.nets[names[i].s].params = r.params,
                                        !.events = st.events \o
                                            <<EvS("torch_load", file),
                                              EvS("load_state_dict", file)>>]
                  IN  IF r.ok THEN LoadLoop(epoch, names, i + 1, st1)
                      ELSE [st1 EXCEPT !.err = "RuntimeError"]

\* load_networks(epoch)
LoadNetworksF(epoch, names, ns, dk) ==
    LoadLoop(epoch, names, 1, [nets |-> ns, disk |-> dk, events |-> <<>>, err |-> "none"])

\* print_networks(verbose): getattr of every string name
PrintNetworksErr(names, ns) ==
    IF \E i \in 1..Len(names) : IsStrName(names[i]) /\ ~ns[names[i].s].bound
    THEN "AttributeError" ELSE "none"

(***************************************************************************)
(* setup(conf).                                                            *)
(***************************************************************************)
StrIter(str) == [isStr |-> TRUE, s |-> str, n |-> 0]

IntIter(num) == [isStr |-> FALSE, s |-> <<>>, n |-> num]

DefaultConf ==
    [continue_train |-> FALSE, load_iter |-> IntIter(0), epoch |-> <<>>, verbose |-> FALSE]

ShouldLoadBoth(train, conf) == ~train /\ conf.continue_train

\* not self.isTrain or conf.continue_train
ShouldLoad(train, conf) == ~train \/ conf.continue_train

\* conf.load_iter > 0 raises TypeError for a string
SuffixRaises(conf) == conf.load_iter.isStr /\ conf.load_iter.s # S_latest

\* load_suffix
LoadSuffix(conf) ==
    IF conf.load_iter.isStr /\ conf.load_iter.s = S_latest THEN S_latest
    ELSE IF conf.load_iter.n > 0 THEN IterSuffix(conf.load_iter.n)
    ELSE conf.epoch

\* setup(conf), after the scheduler list is reset: the load, then the print
SetupF(train, conf, names, ns, dk) ==
    LET noload == [nets |-> ns, disk |-> dk, events |-> <<>>, err |-> "none",
                       by |-> "none"]
        printed(st) ==
            [st EXCEPT !.events = Append(st.events,
                                      [Ev("print_networks") EXCEPT !.hasArg = conf.verbose]),
                       !.err = PrintNetworksErr(names, st.nets),
                       !.by = IF PrintNetworksErr(names, st.nets) = "none"
                              THEN "none" ELSE "print_networks"]
    IN  IF ShouldLoad(train, conf)
        THEN IF SuffixRaises(conf)
             THEN [noload EXCEPT !.err = "TypeError", !.by = "setup"]
             ELSE LET l == LoadNetworksF(LoadSuffix(conf), names, ns, dk)
                      st == [nets |-> l.nets, disk |-> l.disk, err |-> l.err,
                             by |-> IF l.err = "none" THEN "none" ELSE "load_networks",
                             events |-> <<EvS("load_networks", LoadSuffix(conf))>>
                                            \o l.events]
                  IN  IF l.err = "none" THEN printed(st) ELSE st
        ELSE printed(noload)

NoCall == [op |-> "none", epoch |-> <<>>, conf |-> DefaultConf, events |-> <<>>,
           err |-> "none", by |-> "none", ret |-> <<>>]

NoSave == [valid |-> FALSE, epoch |-> <<>>, nets |-> <<>>]

(***************************************************************************)
(* Layers. A feature map is [ok, c, h]: channels and one spatial extent.   *)
(***************************************************************************)
Layer(kind) == [kind |-> kind, cin |-> 0, cout |-> 0, bias |-> FALSE, p |-> 0,
                sub |-> <<>>]

\* nn.Conv2d(cin, cout, kernel_size=4, stride=2, padding=1, bias=bias)
DownConv(cin, cout, bias) ==
    [Layer("Conv2d4") EXCEPT !.cin = cin, !.cout = cout, !.bias = bias, !.p = 1]

\* nn.ConvTranspose2d(cin, cout, kernel_size=4, stride=2, padding=1, bias=bias)
UpConv(cin, cout, bias) ==
    [Layer("ConvTranspose2d4") EXCEPT !.cin = cin, !.cout = cout, !.bias = bias, !.p = 1]

\* nn.Conv2d(dim, dim, kernel_size=3, padding=p, bias=bias)
Conv3(dim, p, bias) ==
    [Layer("Conv2d3") EXCEPT !.cin = dim, !.cout = dim, !.bias = bias, !.p = p]

\* norm_layer(n)
NormOf(norm, n) == [Layer(norm.func) EXCEPT !.cin = n, !.cout = n]

SubModule(m) == [Layer(m.kind) EXCEPT !.sub = <<m>>]

Failed == [ok |-> FALSE, c |-> 0, h |-> 0]

Map(c, h) == [ok |-> TRUE, c |-> c, h |-> h]

\* what one layer without sub-modules does to the shape of its input
LayerForward(l, x) ==
    IF ~x.ok THEN Failed
    ELSE IF l.kind = "Conv2d4"
    THEN IF x.c # l.cin \/ x.h + 2 * l.p < 4 THEN Failed
         ELSE Map(l.cout, (x.h + 2 * l.p - 4) \div 2 + 1)
    ELSE IF l.kind = "ConvTranspose2d4"
    THEN IF x.c # l.cin THEN Failed
         ELSE Map(l.cout, (x.h - 1) * 2 - 2 * l.p + 4)
    ELSE IF l.kind = "Conv2d3"
    THEN IF x.c # l.cin \/ x.h + 2 * l.p < 3 THEN Failed
         ELSE Map(l.cout, x.h + 2 * l.p - 2)
    ELSE IF l.kind = "BatchNorm2d"
    THEN IF x.c # l.cin THEN Failed ELSE x
    ELSE IF l.kind = "ReflectionPad2d"
    THEN IF l.p >= x.h THEN Failed ELSE Map(x.c, x.h + 2 * l.p)
    ELSE IF l.kind = "ReplicationPad2d"
    THEN Map(x.c, x.h + 2 * l.p)
    ELSE IF l.kind = "none" THEN Failed
    ELSE x

(***************************************************************************)
(* UnetBlock.                                                              *)
(***************************************************************************)
S_InstanceNorm2d == "InstanceNorm2d"

Direct(cls) == [partial |-> FALSE, func |-> cls]

Partial(cls) == [partial |-> TRUE, func |-> cls]

NormLayers == {Direct("InstanceNorm2d"), Direct("BatchNorm2d"),
               Partial("InstanceNorm2d"), Partial("BatchNorm2d")}

NoBlock == [kind |-> "none"]

UseBiasUnlessInstanceNorm(norm) == norm.func # S_InstanceNorm2d

\* use_bias, for a functools.partial and for a class
UseBias(norm) ==
    IF norm.partial THEN norm.func = S_InstanceNorm2d
    ELSE norm.func = S_InstanceNorm2d

NoneArg == [none |-> TRUE, n |-> 0]

Chan(n) == [none |-> FALSE, n |-> n]

\* in_channel, after "if in_channel == None: in_channel = out_channel"
InChannel(inArg, out) == IF inArg.none THEN out ELSE inArg.n

DepthOf(m) == IF m.kind = "none" THEN 0 ELSE m.depth

\* UnetBlock.__init__: self.outer, self.model (args and depth are history)
UnetBlockInitF(inArg, out, hid, pre, inner, outer, norm, drop) ==
    LET cin == InChannel(inArg, out)
        bias == UseBias(norm)
        downconv == DownConv(cin, hid, bias)
        downrelu == Layer("LeakyReLU")
        downnorm == NormOf(norm, hid)
        uprelu == Layer("ReLU")
        upnorm == NormOf(norm, out)
        model ==
            IF outer
            THEN <<downconv>> \o <<SubModule(pre)>>
                     \o <<uprelu, UpConv(hid * 2, out, TRUE), Layer("Tanh")>>
            ELSE IF inner
            THEN <<downrelu, downconv>> \o <<uprelu, UpConv(hid, out, bias), upnorm>>
            ELSE <<downrelu, downconv, downnorm>> \o <<SubModule(pre)>>
                     \o <<uprelu, UpConv(hid * 2, out, bias), upnorm>>
                     \o (IF drop THEN <<Layer("Dropout")>> ELSE <<>>)
    IN  [kind |-> "UnetBlock", outer |-> outer, model |-> model,
         args |-> [cin |-> cin, out |-> out, hid |-> hid, inner |-> inner,
                   norm |-> norm, drop |-> drop],
         depth |-> IF outer \/ ~inner THEN 1 + DepthOf(pre) ELSE 1]

RECURSIVE SeqForward(_, _, _)
RECURSIVE UnetRun(_, _)

\* nn.Sequential.forward
SeqForward(layers, i, x) ==
    IF i > Len(layers) \/ ~x.ok THEN x
    ELSE SeqForward(layers, i + 1,
             IF layers[i].kind = "UnetBlock"
             THEN LET r == UnetRun(layers[i].sub[1], x)
                  IN  [ok |-> r.ok, c |-> r.c, h |-> r.h]
             ELSE LayerForward(layers[i], x))

\* torch.cat([x, y], dim=1)
Cat(x, y) ==
    IF ~x.ok \/ ~y.ok \/ x.h # y.h THEN Failed ELSE Map(x.c + y.c, x.h)

\* UnetBlock.forward; cat tells whether the result is a concatenation
UnetRun(blk, x) ==
    LET y == SeqForward(blk.model, 1, x)
        r == IF blk.outer THEN y ELSE Cat(x, y)
    IN  [ok |-> r.ok, c |-> r.c, h |-> r.h, cat |-> ~blk.outer]

UnetRunAlwaysCat(blk, x) ==
    LET y == SeqForward(blk.model, 1, x)
        r == Cat(x, y)
    IN  [ok |-> r.ok, c |-> r.c, h |-> r.h, cat |-> TRUE]

\* UnetBlock.forward(x)
UnetForwardF(blk, x) == UnetRun(blk, x)

Channels == {1, 2}

(***************************************************************************)
(* ResnetBlock.                                                            *)
(***************************************************************************)
\* the padding layer build_conv_block puts before a convolution, if any
PadLayers(padding_type) ==
    IF padding_type = "reflect" THEN <<[Layer("ReflectionPad2d") EXCEPT !.p = 1]>>
    ELSE IF padding_type = "replicate" THEN <<[Layer("ReplicationPad2d") EXCEPT !.p = 1]>>
    ELSE <<>>

\* p, the padding of the convolution itself
ConvPad(padding_type) == IF padding_type = "zero" THEN 1 ELSE 0

\* ResnetBlock.build_conv_block
BuildConvBlock(dim, padding_type, norm, drop, bias) ==
    PadLayers(padding_type)
        \o <<Conv3(dim, ConvPad(padding_type), bias), NormOf(norm, dim), Layer("ReLU")>>
        \o (IF drop THEN <<Layer("Dropout")>> ELSE <<>>)
        \o PadLayers(padding_type)
        \o <<Conv3(dim, ConvPad(padding_type), bias), NormOf(norm, dim)>>

\* ResnetBlock.__init__: it raises nothing for any padding_type
ResnetBlockInitF(dim, padding_type, norm, drop, bias) ==
    [blk |-> [kind |-> "ResnetBlock",
              conv_block |-> BuildConvBlock(dim, padding_type, norm, drop, bias),
              args |-> [dim |-> dim, padding_type |-> padding_type]],
     err |-> "none"]

\* x + y, with broadcasting of an extent of 1
Add(x, y) ==
    IF ~x.ok \/ ~y.ok THEN Failed
    ELSE IF x.c # y.c /\ x.c # 1 /\ y.c # 1 THEN Failed
    ELSE IF x.h # y.h /\ x.h # 1 /\ y.h # 1 THEN Failed
    ELSE Map(IF x.c > y.c THEN x.c ELSE y.c, IF x.h > y.h THEN x.h ELSE y.h)

\* ResnetBlock.forward
ResnetForwardF(blk, x) == Add(x, SeqForward(blk.conv_block, 1, x))

PaddingTypes == {"reflect", "replicate", "zero", "circular"}

ResnetInputs == {Map(c, h) : c \in Channels, h \in {1, 4, 5}}

InArgs == {NoneArg, Chan(1)}

UnetInputs == {Map(1, 4), Map(2, 4), Map(1, 5)}

DefaultNorm == Direct("BatchNorm2d")

NoBlockCall == [op |-> "none", x |-> Failed, out |-> Failed, cat |-> FALSE,
                err |-> "none", padding_type |-> "none"]

InitBlocks ==
    /\ ublk = NoBlock
    /\ ucall = NoBlockCall
    /\ rblk = NoBlock
    /\ rcall = NoBlockCall

blockVars == <<ublk, ucall, rblk, rcall>>

UnetBlockInit(inArg, out, hid, pre, inner, outer, norm, drop) ==
    /\ DepthOf(pre) <= MaxWraps
    /\ ublk' = UnetBlockInitF(inArg, out, hid, pre, inner, outer, norm, drop)
    /\ ucall' = [NoBlockCall EXCEPT !.op = "init"]
    /\ UNCHANGED <<rblk, rcall>>
    /\ UNCHANGED baseVars

UnetForward(x) ==
    /\ ublk.kind = "UnetBlock"
    /\ LET r == UnetForwardF(ublk, x)
       IN  ucall' = [NoBlockCall EXCEPT !.op = "forward", !.x = x,
                        !.out = [ok |-> r.ok, c |-> r.c, h |-> r.h], !.cat = r.cat,
                        !.err = IF r.ok THEN "none" ELSE "RuntimeError"]
    /\ UNCHANGED <<ublk, rblk, rcall>>
    /\ UNCHANGED baseVars


(***************************************************************************)
(* The inputs the lifecycle is run on.                                     *)
(***************************************************************************)
S_w == <<"w">>
S_b == <<"b">>
S_m0w == <<"m", "o", "d", "e", "l", ".", "0", ".", "w">>
S_5 == <<"5">>
S_best == <<"b", "e", "s", "t">>

\* the parameter paths of the architectures a network attribute may have
Archs == {<<S_w>>, <<S_w, S_b>>, <<S_m0w>>}

Fresh(arch) == [i \in 1..Len(arch) |-> [k |-> arch[i], v |-> 0]]

Module(arch, wrap) == [bound |-> TRUE, wrapped |-> wrap, params |-> Fresh(arch)]

ModelNameProfiles == {<<StrName(S_G)>>, <<StrName(S_G), NonStrName, StrName(S_D)>>}

\* the epoch tokens the training loop saves and loads under
Epochs == {S_latest, IterSuffix(1), S_5}

\* checkpoint files another run left in the save directory
ForeignDicts ==
    {<<[k |-> S_module \o S_w, v |-> 1], [k |-> S_module \o S_b, v |-> 1]>>,
     <<[k |-> S_module \o S_w, v |-> 1]>>}

Confs ==
    [continue_train : BOOLEAN,
     load_iter : {StrIter(S_latest), StrIter(S_best), IntIter(0), IntIter(1)},
     epoch : {S_5},
     verbose : BOOLEAN]

Policies == {"plateau", "step"}

InitMetric == 0

\* BaseModel.__init__, and the subclass's registration of its networks
InitBase ==
    /\ isTrain \in BOOLEAN
    /\ lr_policy = "step"
    /\ model_names \in ModelNameProfiles
    /\ \E a \in Archs, w \in BOOLEAN, db \in BOOLEAN :
       LET d == IF db /\ Len(model_names) > 1 THEN Module(<<S_w>>, w) ELSE Unbound IN
          /\ Len(model_names) = 1 => ~db
          /\ nets = [n \in NetAttrs |-> IF n = S_G THEN Module(a, w) ELSE d]
    /\ emaG = [attached |-> FALSE, shadow |-> 0]
    /\ disk = <<>>
    /\ optimizers = <<>>
    /\ schedSet = FALSE
    /\ schedulers = <<>>
    /\ metric = InitMetric
    /\ metricSet = FALSE
    /\ loss_names = <<>>
    /\ loss_attrs = <<>>
    /\ lastSave = NoSave
    /\ call = NoCall
    /\ nOps = 0

Init == InitBase /\ InitBlocks

(***************************************************************************)
(* Actions of the checkpoint lifecycle.                                    *)
(***************************************************************************)
\* the optimizer step of the tensor runtime changes a parameter of a network
TrainStep(n, i) ==
    /\ nOps < MaxOps
    /\ nets[n].bound /\ i \in 1..Len(nets[n].params)
    /\ nets' = [nets EXCEPT ![n].params[i].v = (@ + 1) % (MaxVal + 1)]
    /\ lastSave' = NoSave
    /\ call' = [NoCall EXCEPT !.op = "train_step"]
    /\ nOps' = nOps + 1
    /\ UNCHANGED <<isTrain, lr_policy, model_names, emaG, disk, optimizers, schedSet,
                   schedulers, metric, metricSet, loss_names, loss_attrs>>
    /\ UNCHANGED blockVars

\* the subclass attaches an EMA generator
AttachEMA(sh) ==
    /\ nOps < MaxOps
    /\ ~emaG.attached
    /\ emaG' = [attached |-> TRUE, shadow |-> sh]
    /\ lastSave' = NoSave
    /\ call' = [NoCall EXCEPT !.op = "attach_ema"]
    /\ nOps' = nOps + 1
    /\ UNCHANGED <<isTrain, lr_policy, model_names, nets, disk, optimizers, schedSet,
                   schedulers, metric, metricSet, loss_names, loss_attrs>>
    /\ UNCHANGED blockVars

\* a checkpoint file written by another run appears in the save directory
PlantCheckpoint(e, n, sd) ==
    /\ nOps < MaxOps
    /\ disk' = WriteFile(disk, FileName(e, n), sd)
    /\ lastSave' = NoSave
    /\ call' = [NoCall EXCEPT !.op = "plant_checkpoint"]
    /\ nOps' = nOps + 1
    /\ UNCHANGED <<isTrain, lr_policy, model_names, nets, emaG, optimizers, schedSet,
                   schedulers, metric, metricSet, loss_names, loss_attrs>>
    /\ UNCHANGED blockVars

SaveNetworks(e) ==
    /\ nOps < MaxOps
    /\ LET r == SaveNetworksF(e, model_names, nets, disk, emaG)
       IN  /\ nets' = r.nets
           /\ disk' = r.disk
           /\ call' = [NoCall EXCEPT !.op = "save_networks", !.epoch = e,
                                     !.events = r.events, !.err = r.err]
           /\ lastSave' = IF r.err = "none"
                          THEN [valid |-> TRUE, epoch |-> e, nets |-> r.nets]
                          ELSE NoSave
    /\ nOps' = nOps + 1
    /\ UNCHANGED <<isTrain, lr_policy, model_names, emaG, optimizers, schedSet,
                   schedulers, metric, metricSet, loss_names, loss_attrs>>
    /\ UNCHANGED blockVars

LoadNetworks(e) ==
    /\ nOps < MaxOps
    /\ LET r == LoadNetworksF(e, model_names, nets, disk)
       IN  /\ nets' = r.nets
           /\ call' = [NoCall EXCEPT !.op = "load_networks", !.epoch = e,
                                     !.events = r.events, !.err = r.err]
    /\ nOps' = nOps + 1
    /\ UNCHANGED <<isTrain, lr_policy, model_names, emaG, disk, optimizers, schedSet,
                   schedulers, metric, metricSet, loss_names, loss_attrs, lastSave>>
    /\ UNCHANGED blockVars

Setup(conf) ==
    /\ nOps < MaxOps
    /\ schedSet' = (isTrain \/ schedSet)
    /\ schedulers' = IF isTrain THEN <<>> ELSE schedulers
    /\ LET r == SetupF(isTrain, conf, model_names, nets, disk)
       IN  /\ nets' = r.nets
           /\ call' = [NoCall EXCEPT !.op = "setup", !.conf = conf,
                                     !.events = r.events, !.err = r.err, !.by = r.by]
    /\ lastSave' = NoSave
    /\ nOps' = nOps + 1
    /\ UNCHANGED <<isTrain, lr_policy, model_names, emaG, disk, optimizers,
                   metric, metricSet, loss_names, loss_attrs>>
    /\ UNCHANGED blockVars

Next ==
    \/ \E n \in NetAttrs, i \in 1..2 : TrainStep(n, i)
    \/ \E sh \in 0..MaxVal : AttachEMA(sh)
    \/ \E e \in Epochs, sd \in ForeignDicts : PlantCheckpoint(e, S_G, sd)
    \/ \E e \in Epochs : SaveNetworks(e)
    \/ \E e \in Epochs : LoadNetworks(e)
    \/ \E conf \in Confs : Setup(conf)

Spec == Init /\ [][Next]_vars

(***************************************************************************)
(* Claims about the checkpoint lifecycle, checked under Spec.              *)
(***************************************************************************)
Registered == {i \in 1..Len(model_names) : IsStrName(model_names[i])}

NetOf(i) == nets[model_names[i].s]

FileOf(e, i) == FileName(e, model_names[i].s)

\* the keys of the checkpoint file without their first 7 characters
CheckpointKeys(e, i) ==
    {SubSeq(disk[FileOf(e, i)][j].k, 8, Len(disk[FileOf(e, i)][j].k)) :
        j \in 1..Len(disk[FileOf(e, i)])}

LiveKeys(i) == {NetOf(i).params[j].k : j \in 1..Len(NetOf(i).params)}

Calls(name) == {i \in 1..Len(call.events) : call.events[i].ev = name}

\* C1: load_networks(e) right after a completed save_networks(e) succeeds and
\* leaves every parameter of every registered network with the value it had
\* when saved.
C1_RoundTrip ==
    (call.op = "load_networks" /\ lastSave.valid /\ lastSave.epoch = call.epoch)
        => (call.err = "none" /\ nets = lastSave.nets)

\* C1, for networks wrapped in DataParallel only: the round trip holds.
C1_RoundTripWrapped ==
    (/\ call.op = "load_networks" /\ lastSave.valid /\ lastSave.epoch = call.epoch
     /\ \A i \in Registered : NetOf(i).wrapped)
        => (call.err = "none" /\ nets = lastSave.nets)

\* C2: load_networks succeeds only if, for every registered network, the
\* checkpoint's keys without their first 7 characters are exactly the live
\* network's keys; a checkpoint whose stripped keys are a strict superset of
\* the live keys makes the call fail.
C2_ExactKeySet ==
    call.op = "load_networks" =>
        /\ call.err = "none" =>
              \A i \in Registered :
                  /\ NetOf(i).bound
                  /\ FileOf(call.epoch, i) \in DOMAIN disk
                  /\ CheckpointKeys(call.epoch, i) = LiveKeys(i)
        /\ \A i \in Registered :
              (/\ NetOf(i).bound
               /\ FileOf(call.epoch, i) \in DOMAIN disk
               /\ LiveKeys(i) \subseteq CheckpointKeys(call.epoch, i)
               /\ LiveKeys(i) # CheckpointKeys(call.epoch, i))
                  => call.err # "none"

C2_Witness ==
    /\ call.op = "load_networks"
    /\ call.err = "RuntimeError"
    /\ \E i \in Registered :
          /\ NetOf(i).bound
          /\ FileOf(call.epoch, i) \in DOMAIN disk
          /\ LiveKeys(i) \subseteq CheckpointKeys(call.epoch, i)
          /\ LiveKeys(i) # CheckpointKeys(call.epoch, i)

\* C3: save_networks("latest") with an EMA generator attached calls
\* apply_shadow exactly once, before anything is serialized; with no EMA
\* generator, or any other epoch token, apply_shadow is not called.
C3_ApplyShadowOnce ==
    call.op = "save_networks" =>
        IF call.epoch = <<"l", "a", "t", "e", "s", "t">> /\ emaG.attached
        THEN Calls("apply_shadow") = {1}
        ELSE Calls("apply_shadow") = {}

C3_Witness ==
    /\ call.op = "save_networks"
    /\ call.epoch = <<"l", "a", "t", "e", "s", "t">>
    /\ emaG.attached
    /\ Calls("torch_save") # {}
    /\ Calls("apply_shadow") = {1}

\* the suffix the claim names for a configuration
ClaimedSuffix(conf) ==
    IF conf.load_iter.isStr /\ conf.load_iter.s = <<"l", "a", "t", "e", "s", "t">>
    THEN <<"l", "a", "t", "e", "s", "t">>
    ELSE IF ~conf.load_iter.isStr /\ conf.load_iter.n = 1
    THEN <<"i", "t", "e", "r", "_", "1">>
    ELSE IF ~conf.load_iter.isStr /\ conf.load_iter.n = 2
    THEN <<"i", "t", "e", "r", "_", "2">>
    ELSE conf.epoch

\* C4 as stated: load_networks is invoked iff not training or continue_train,
\* with suffix "latest" / "iter_<N>" / conf.epoch, and print_networks is
\* invoked on every setup call, after the load.
C4_AsStated ==
    (call.op = "setup"
     /\ (call.conf.load_iter.isStr => call.conf.load_iter.s = <<"l", "a", "t", "e", "s", "t">>))
    =>
        /\ (Calls("load_networks") # {}) <=> (~isTrain \/ call.conf.continue_train)
        /\ \A i \in Calls("load_networks") : call.events[i].s = ClaimedSuffix(call.conf)
        /\ Calls("print_networks") = {Len(call.events)}
        /\ Len(call.events) > 0
        /\ call.events[Len(call.events)].hasArg = call.conf.verbose

\* C4 as amended: for load_iter "latest" or an integer; print_networks is
\* invoked (once, last, with conf.verbose) exactly when the load, if any,
\* did not raise.
C4_SetupLoadsThenPrints ==
    (call.op = "setup"
     /\ (call.conf.load_iter.isStr => call.conf.load_iter.s = <<"l", "a", "t", "e", "s", "t">>))
    =>
        /\ (Calls("load_networks") # {}) <=> (~isTrain \/ call.conf.continue_train)
        /\ Cardinality(Calls("load_networks")) <= 1
        /\ \A i \in Calls("load_networks") :
              i = 1 /\ call.events[i].s = ClaimedSuffix(call.conf)
        /\ IF call.by = "load_networks"
           THEN Calls("print_networks") = {} /\ call.err # "none"
           ELSE /\ Calls("print_networks") = {Len(call.events)}
                /\ Len(call.events) > 0
                /\ call.events[Len(call.events)].hasArg = call.conf.verbose

C4_Witness ==
    /\ call.op = "setup"
    /\ call.err = "none"
    /\ Calls("load_networks") = {1}
    /\ Calls("load_state_dict") # {}
    /\ Calls("print_networks") = {Len(call.events)}
    /\ isTrain

(***************************************************************************)
(* update_learning_rate.                                                   *)
(***************************************************************************)
StepCallAlwaysMetric(policy, m) == [hasArg |-> TRUE, arg |-> m]

StepCallNeverMetric(policy, m) == [hasArg |-> FALSE, arg |-> 0]

\* scheduler.step(self.metric) under 'plateau', scheduler.step() otherwise
StepCall(policy, m) ==
    IF policy = "plateau" THEN [hasArg |-> TRUE, arg |-> m]
    ELSE [hasArg |-> FALSE, arg |-> 0]

StepEvent(i, policy, m) ==
    [Ev("step") EXCEPT !.i = i, !.hasArg = StepCall(policy, m).hasArg,
                       !.arg = StepCall(policy, m).arg]

RECURSIVE StepLoop(_, _, _, _, _)
StepLoop(opts, scheds, i, policy, m) ==
    IF i > Len(scheds) THEN opts
    ELSE StepLoop([opts EXCEPT ![scheds[i].opt] = @ + 1], scheds, i + 1, policy, m)

\* update_learning_rate(): old_lr is read first, then every scheduler steps
UpdateLearningRateF(opts, sset, scheds, policy, m) ==
    IF Len(opts) = 0
    THEN [optimizers |-> opts, schedulers |-> scheds, events |-> <<>>,
          err |-> "IndexError"]
    ELSE IF ~sset
    THEN [optimizers |-> opts, schedulers |-> scheds, events |-> <<>>,
          err |-> "AttributeError"]
    ELSE [optimizers |-> StepLoop(opts, scheds, 1, policy, m),
          schedulers |-> [i \in 1..Len(scheds) |->
                             [scheds[i] EXCEPT !.steps = @ + 1]],
          events |-> [i \in 1..Len(scheds) |-> StepEvent(i, policy, m)],
          err |-> "none"]

\* BaseModel.__init__ and a subclass that has created its optimizers
InitLR ==
    /\ isTrain \in BOOLEAN
    /\ lr_policy \in Policies
    /\ model_names = <<StrName(S_G)>>
    /\ nets = [n \in NetAttrs |-> IF n = S_G THEN Module(<<S_w>>, TRUE) ELSE Unbound]
    /\ emaG = [attached |-> FALSE, shadow |-> 0]
    /\ disk = <<>>
    /\ optimizers \in {[i \in 1..n |-> 0] : n \in 0..MaxSched}
    /\ schedSet = FALSE
    /\ schedulers = <<>>
    /\ metric = InitMetric
    /\ metricSet = FALSE
    /\ loss_names = <<>>
    /\ loss_attrs = <<>>
    /\ lastSave = NoSave
    /\ call = NoCall
    /\ nOps = 0
    /\ InitBlocks

\* the subclass appends a scheduler built on one of its optimizers
AddScheduler(o) ==
    /\ schedSet
    /\ Len(schedulers) < MaxSched
    /\ o \in 1..Len(optimizers)
    /\ schedulers' = Append(schedulers, [opt |-> o, steps |-> 0])
    /\ call' = [NoCall EXCEPT !.op = "add_scheduler"]
    /\ UNCHANGED <<isTrain, lr_policy, model_names, nets, emaG, disk, optimizers,
                   schedSet, metric, metricSet, loss_names, loss_attrs, lastSave, nOps>>
    /\ UNCHANGED blockVars

\* the training loop assigns self.metric
SetMetric(m) ==
    /\ metric' = m
    /\ metricSet' = TRUE
    /\ call' = [NoCall EXCEPT !.op = "set_metric"]
    /\ UNCHANGED <<isTrain, lr_policy, model_names, nets, emaG, disk, optimizers,
                   schedSet, schedulers, loss_names, loss_attrs, lastSave, nOps>>
    /\ UNCHANGED blockVars

UpdateLearningRate ==
    /\ nOps < MaxOps
    /\ LET r == UpdateLearningRateF(optimizers, schedSet, schedulers, lr_policy, metric)
       IN  /\ optimizers' = r.optimizers
           /\ schedulers' = r.schedulers
           /\ call' = [NoCall EXCEPT !.op = "update_learning_rate",
                                     !.events = r.events, !.err = r.err]
    /\ nOps' = nOps + 1
    /\ UNCHANGED <<isTrain, lr_policy, model_names, nets, emaG, disk, schedSet,
                   metric, metricSet, loss_names, loss_attrs, lastSave>>
    /\ UNCHANGED blockVars

NextLR ==
    \/ \E conf \in Confs : Setup(conf)
    \/ \E o \in 1..MaxSched : AddScheduler(o)
    \/ \E m \in 0..MaxVal : SetMetric(m)
    \/ UpdateLearningRate

SpecLR == InitLR /\ [][NextLR]_vars

\* C5: one call to update_learning_rate steps every scheduler of
\* self.schedulers exactly once, in list order, with self.metric as the
\* argument iff lr_policy is "plateau" and with no argument otherwise.
C5_StepsEveryScheduler ==
    call.op = "update_learning_rate" =>
        /\ Len(call.events) = Len(schedulers)
        /\ \A i \in 1..Len(schedulers) :
              /\ call.events[i].ev = "step"
              /\ call.events[i].i = i
              /\ call.events[i].hasArg = (lr_policy = "plateau")
              /\ call.events[i].hasArg => call.events[i].arg = metric

C5_Witness ==
    /\ call.op = "update_learning_rate"
    /\ call.err = "none"
    /\ Len(schedulers) = 2
    /\ lr_policy = "plateau"
    /\ metricSet /\ metric = 1
    /\ Len(call.events) = 2

\* C6 as stated: under "plateau", update_learning_rate on a model whose
\* metric was never set fails instead of stepping with a default metric.
C6_AsStated ==
    (/\ call.op = "update_learning_rate"
     /\ lr_policy = "plateau"
     /\ ~metricSet
     /\ Len(schedulers) > 0)
        => (call.err # "none" /\ call.events = <<>>)

\* C6 as amended: under "plateau" with the metric never set, the call does
\* not fail for the metric: every scheduler is stepped with the value 0 that
\* __init__ gave self.metric.
C6_StepsWithInitialMetric ==
    (/\ call.op = "update_learning_rate"
     /\ lr_policy = "plateau"
     /\ ~metricSet
     /\ schedSet
     /\ Len(optimizers) > 0)
        => /\ call.err = "none"
           /\ Len(call.events) = Len(schedulers)
           /\ \A i \in 1..Len(call.events) :
                 call.events[i].hasArg /\ call.events[i].arg = 0

C6_Witness ==
    /\ call.op = "update_learning_rate"
    /\ lr_policy = "plateau"
    /\ ~metricSet
    /\ Len(schedulers) > 0
    /\ call.err = "none"
    /\ call.events[1].hasArg /\ call.events[1].arg = 0

(***************************************************************************)
(* get_current_losses.                                                     *)
(***************************************************************************)
NoAttr == [has |-> FALSE, kind |-> "none", v |-> 0]

LossValues == [has : {TRUE}, kind : {"tensor", "int"}, v : 0..MaxVal]

\* float(x)
Float(x) == [kind |-> "float", v |-> x.v]

LossEntrySkipMissing(st, attrs, nm) ==
    IF ~IsStrName(nm) \/ ~attrs[nm.s].has THEN st
    ELSE [st EXCEPT !.ret = ODSet(st.ret, nm, Float(attrs[nm.s]))]

\* one turn of the loop over loss_names
LossEntry(st, attrs, nm) ==
    IF ~IsStrName(nm) THEN st
    ELSE IF ~attrs[nm.s].has THEN [st EXCEPT !.err = "AttributeError"]
    ELSE [st EXCEPT !.ret = ODSet(st.ret, nm, Float(attrs[nm.s]))]

RECURSIVE LossLoop(_, _, _, _)
LossLoop(names, attrs, i, st) ==
    IF i > Len(names) \/ st.err # "none" THEN st
    ELSE LossLoop(names, attrs, i + 1, LossEntry(st, attrs, names[i]))

\* get_current_losses(): the OrderedDict, or the exception of the getattr
GetCurrentLossesF(names, attrs) ==
    LossLoop(names, attrs, 1, [ret |-> <<>>, err |-> "none"])

\* BaseModel.__init__: loss_names is empty and no loss_<name> attribute exists
InitLoss ==
    /\ isTrain = TRUE
    /\ lr_policy = "step"
    /\ model_names = <<>>
    /\ nets = [n \in NetAttrs |-> Unbound]
    /\ emaG = [attached |-> FALSE, shadow |-> 0]
    /\ disk = <<>>
    /\ optimizers = <<>>
    /\ schedSet = FALSE
    /\ schedulers = <<>>
    /\ metric = InitMetric
    /\ metricSet = FALSE
    /\ loss_names = <<>>
    /\ loss_attrs = [n \in NetAttrs |-> NoAttr]
    /\ lastSave = NoSave
    /\ call = NoCall
    /\ nOps = 0
    /\ InitBlocks

\* the subclass registers a loss name
RegisterLoss(nm) ==
    /\ Len(loss_names) < MaxLoss
    /\ loss_names' = Append(loss_names, nm)
    /\ call' = [NoCall EXCEPT !.op = "register_loss"]
    /\ UNCHANGED <<isTrain, lr_policy, model_names, nets, emaG, disk, optimizers,
                   schedSet, schedulers, metric, metricSet, loss_attrs, lastSave, nOps>>
    /\ UNCHANGED blockVars

\* the subclass's optimization step assigns self.loss_<n>
SetLoss(n, x) ==
    /\ loss_attrs' = [loss_attrs EXCEPT ![n] = x]
    /\ call' = [NoCall EXCEPT !.op = "set_loss"]
    /\ UNCHANGED <<isTrain, lr_policy, model_names, nets, emaG, disk, optimizers,
                   schedSet, schedulers, metric, metricSet, loss_names, lastSave, nOps>>
    /\ UNCHANGED blockVars

GetCurrentLosses ==
    /\ LET r == GetCurrentLossesF(loss_names, loss_attrs)
       IN  call' = [NoCall EXCEPT !.op = "get_current_losses",
                                  !.ret = IF r.err = "none" THEN r.ret ELSE <<>>,
                                  !.err = r.err]
    /\ UNCHANGED <<isTrain, lr_policy, model_names, nets, emaG, disk, optimizers,
                   schedSet, schedulers, metric, metricSet, loss_names, loss_attrs,
                   lastSave, nOps>>
    /\ UNCHANGED blockVars

NextLoss ==
    \/ \E nm \in {StrName(S_G), StrName(S_D), NonStrName} : RegisterLoss(nm)
    \/ \E n \in NetAttrs, x \in LossValues : SetLoss(n, x)
    \/ GetCurrentLosses

SpecLoss == InitLoss /\ [][NextLoss]_vars

\* the entries of a sequence of names, each at its first occurrence
RECURSIVE FirstOccurrences(_, _, _)
FirstOccurrences(names, i, acc) ==
    IF i > Len(names) THEN acc
    ELSE FirstOccurrences(names, i + 1,
             IF \E j \in 1..Len(acc) : acc[j] = names[i] THEN acc
             ELSE Append(acc, names[i]))

RetKeys == [j \in 1..Len(call.ret) |-> call.ret[j].k]

\* C7 as stated: the result's keys are exactly the entries of loss_names in
\* registration order, each mapped to the float of loss_<name>; the call
\* raises if an entry has no backing attribute, and leaves no entry out.
C7_AsStated ==
    call.op = "get_current_losses" =>
        IF \E i \in 1..Len(loss_names) :
               ~loss_names[i].isStr \/ ~loss_attrs[loss_names[i].s].has
        THEN call.err # "none"
        ELSE /\ call.err = "none"
             /\ RetKeys = FirstOccurrences(loss_names, 1, <<>>)

\* C7 as amended: the same for the string entries of loss_names; an entry
\* that is not a string is skipped without a lookup and without an error.
C7_StringEntriesOnly ==
    call.op = "get_current_losses" =>
        IF \E i \in 1..Len(loss_names) :
               loss_names[i].isStr /\ ~loss_attrs[loss_names[i].s].has
        THEN call.err = "AttributeError" /\ call.ret = <<>>
        ELSE /\ call.err = "none"
             /\ RetKeys = FirstOccurrences(
                              SelectSeq(loss_names, LAMBDA nm : nm.isStr), 1, <<>>)
             /\ \A j \in 1..Len(call.ret) :
                   /\ call.ret[j].v.kind = "float"
                   /\ call.ret[j].v.v = loss_attrs[call.ret[j].k.s].v

C7_Witness ==
    /\ call.op = "get_current_losses"
    /\ call.err = "none"
    /\ Len(loss_names) = 2
    /\ ~loss_names[1].isStr
    /\ Len(call.ret) = 1
    /\ call.ret[1].v.v = 1

(***************************************************************************)
(* UnetBlock: specifications.                                              *)
(***************************************************************************)
InitUnet == InitLoss

\* blocks built with the default norm_layer and use_dropout either way
NextUnet ==
    \/ \E inArg \in InArgs, out \in Channels, hid \in Channels,
          pre \in {NoBlock, ublk}, inner \in BOOLEAN, outer \in BOOLEAN :
          UnetBlockInit(inArg, out, hid, pre, inner, outer, DefaultNorm, FALSE)
    \/ \E x \in UnetInputs : UnetForward(x)

SpecUnet == InitUnet /\ [][NextUnet]_vars

\* single blocks built with every norm_layer
NextUnetBias ==
    \E inArg \in InArgs, out \in Channels, hid \in Channels,
       inner \in BOOLEAN, outer \in BOOLEAN, norm \in NormLayers, drop \in BOOLEAN :
       UnetBlockInit(inArg, out, hid, NoBlock, inner, outer, norm, drop)

SpecUnetBias == InitUnet /\ [][NextUnetBias]_vars

\* C8 as stated: the block's convolutions have no bias when norm_layer is an
\* instance normalization (directly or in a functools.partial), and a bias
\* for every other norm_layer.
C8_AsStated ==
    ublk.kind = "UnetBlock" =>
        \A i \in 1..Len(ublk.model) :
            ublk.model[i].kind \in {"Conv2d4", "ConvTranspose2d4"}
                => ublk.model[i].bias = (ublk.args.norm.func # "InstanceNorm2d")

\* C8 as amended: the other way round. The convolutions have a bias exactly
\* when norm_layer is nn.InstanceNorm2d (directly or in a functools.partial);
\* the transposed convolution of an outer block always has one.
C8_BiasIffInstanceNorm ==
    ublk.kind = "UnetBlock" =>
        \A i \in 1..Len(ublk.model) :
            /\ ublk.model[i].kind = "Conv2d4"
                  => ublk.model[i].bias = (ublk.args.norm.func = "InstanceNorm2d")
            /\ ublk.model[i].kind = "ConvTranspose2d4"
                  => ublk.model[i].bias =
                         (ublk.outer \/ ublk.args.norm.func = "InstanceNorm2d")

C8_Witness ==
    /\ ublk.kind = "UnetBlock"
    /\ ~ublk.outer
    /\ ublk.args.norm = [partial |-> TRUE, func |-> "InstanceNorm2d"]
    /\ \E i \in 1..Len(ublk.model) :
          ublk.model[i].kind = "Conv2d4" /\ ublk.model[i].bias
    /\ \E i \in 1..Len(ublk.model) :
          ublk.model[i].kind = "ConvTranspose2d4" /\ ublk.model[i].bias

Kinds(layers) == [i \in 1..Len(layers) |-> layers[i].kind]

\* C9: a forward pass that completes gives, for an outer block, the
\* pipeline's output with out_channel channels and no concatenation; for a
\* middle block, the concatenation of input and upsampled output, with
\* in_channel + out_channel channels. An innermost block's pipeline is
\* down-convolution then up-convolution, with no wrapped sub-block.
C9_ForwardChannels ==
    /\ (ucall.op = "forward" /\ ucall.out.ok) =>
          /\ ublk.outer => (~ucall.cat /\ ucall.out.c = ublk.args.out)
          /\ (~ublk.outer /\ ~ublk.args.inner) =>
                /\ ucall.cat
                /\ ucall.x.c = ublk.args.cin
                /\ ucall.out.c = ublk.args.cin + ublk.args.out
    /\ (ublk.kind = "UnetBlock" /\ ~ublk.outer /\ ublk.args.inner) =>
          /\ \A i \in 1..Len(ublk.model) : ublk.model[i].sub = <<>>
          /\ Kinds(ublk.model) =
                 <<"LeakyReLU", "Conv2d4", "ReLU", "ConvTranspose2d4",
                   ublk.args.norm.func>>

C9_Witness ==
    /\ ucall.op = "forward"
    /\ ucall.out.ok
    /\ ~ublk.outer /\ ~ublk.args.inner
    /\ ucall.cat
    /\ ucall.out.c = 3

C9_WitnessOuter ==
    /\ ucall.op = "forward"
    /\ ucall.out.ok
    /\ ublk.outer
    /\ ucall.x.c # ucall.out.c

(***************************************************************************)
(* ResnetBlock: specification.                                             *)
(***************************************************************************)
ResnetBlockInit(dim, padding_type, norm, drop, bias) ==
    /\ LET r == ResnetBlockInitF(dim, padding_type, norm, drop, bias)
       IN  /\ rblk' = r.blk
           /\ rcall' = [NoBlockCall EXCEPT !.op = "init", !.err = r.err,
                                           !.padding_type = padding_type]
    /\ UNCHANGED <<ublk, ucall>>
    /\ UNCHANGED baseVars

ResnetForward(x) ==
    /\ rblk.kind = "ResnetBlock"
    /\ LET r == ResnetForwardF(rblk, x)
       IN  rcall' = [NoBlockCall EXCEPT !.op = "forward", !.x = x, !.out = r,
                        !.err = IF r.ok THEN "none" ELSE "RuntimeError",
                        !.padding_type = rblk.args.padding_type]
    /\ UNCHANGED <<rblk, ublk, ucall>>
    /\ UNCHANGED baseVars

NextResnet ==
    \/ \E dim \in Channels, pt \in PaddingTypes, norm \in NormLayers,
          drop \in BOOLEAN, bias \in BOOLEAN :
          ResnetBlockInit(dim, pt, norm, drop, bias)
    \/ \E x \in ResnetInputs : ResnetForward(x)

SpecResnet == InitUnet /\ [][NextResnet]_vars

\* C10: constructing a ResnetBlock with a padding-policy token other than
\* "reflect", "replicate" or "zero" yields an error.
C10_UnknownPaddingRaises ==
    (rcall.op = "init" /\ rcall.padding_type \notin {"reflect", "replicate", "zero"})
        => rcall.err # "none"

\* C10, the part about the three valid tokens: "zero" adds no padding layer
\* and both convolutions pad by 1; "reflect" and "replicate" add one padding
\* layer right before each convolution, which then pads by 0.
C10_PaddingLayout ==
    rblk.kind = "ResnetBlock" =>
        LET L == rblk.conv_block
            convs == {i \in 1..Len(L) : L[i].kind = "Conv2d3"}
            pads == {i \in 1..Len(L) : L[i].kind \in {"ReflectionPad2d", "ReplicationPad2d"}}
            pt == rblk.args.padding_type
        IN  /\ Cardinality(convs) = 2
            /\ pt = "zero" => (pads = {} /\ \A i \in convs : L[i].p = 1)
            /\ pt \in {"reflect", "replicate"} =>
                  /\ pads = {i - 1 : i \in convs}
                  /\ \A i \in convs : L[i].p = 0
                  /\ \A i \in pads :
                        L[i].kind = IF pt = "reflect" THEN "ReflectionPad2d"
                                    ELSE "ReplicationPad2d"

====
